---- MODULE Spec2Model ----
(***************************************************************************)
(* Model of sss_ornament_2023_fw.ino: the PIR interrupt handler, the pano  *)
(* LED driver, the pulse animator, the power controller (deep_sleep), the  *)
(* main loop and setup() with the house-LED timer, on an 8-bit AVR where   *)
(* the 32-bit start_ms is accessed one byte at a time.                     *)
(***************************************************************************)
EXTENDS Integers, Sequences, FiniteSets, TLC

(* ------------------------------ bounds --------------------------------- *)
\* how many 1 ms timer ticks the model lets happen
MaxTicks == 1
\* how many long waits (many animation cycles' worth of time) may elapse
MaxWaits == 1
\* value at which the per-ramp write counters stop counting
MaxWrites == 72
\* largest raw value of a pano_color_t handed to pano_led_write on its own
MaxColorValue == 7

(* ------------------------- program constants --------------------------- *)
PANO_LED_DUTY_CYCLE == 70
HOUSE_LED_CMPCLR == 255
SLEEP_TIMEOUT_MIN == 15
SLEEP_TIMEOUT_MS == 1000 * 60 * SLEEP_TIMEOUT_MIN
step_delay_ms == 10

PANO_COLOR_RED == 0
PANO_COLOR_GREEN == 1
PANO_COLOR_BLUE == 2
PANO_COLOR_BROWN == 3
PANO_COLOR_CYAN == 4
PANO_COLOR_YELLOW == 5
PANO_COLOR_COUNT == 6

LOW == 0
HIGH == 1

(* ------------------- uint32_t as four bytes, low first ----------------- *)
ToBytes(n) ==
  <<n % 256, (n \div 256) % 256, (n \div 65536) % 256, (n \div 16777216) % 256>>

Lo16(a) == a[1] + 256 * a[2]

Hi16(a) == a[3] + 256 * a[4]

FromHalves(hi, lo) == <<lo % 256, lo \div 256, hi % 256, hi \div 256>>

\* a + b modulo 2^32
Add32(a, b) ==
  LET lo == Lo16(a) + Lo16(b)
      hi == Hi16(a) + Hi16(b) + (lo \div 65536)
  IN  FromHalves(hi % 65536, lo % 65536)

\* a variant of the subtraction that drops the borrow out of the low half
Sub32_NoBorrow(a, b) ==
  LET lo == Lo16(a) - Lo16(b)
      hi == Hi16(a) - Hi16(b)
  IN  FromHalves((hi + 65536) % 65536, (lo + 65536) % 65536)

\* a - b modulo 2^32
Sub32(a, b) ==
  LET lo == Lo16(a) - Lo16(b)
      hi == Hi16(a) - Hi16(b) - (IF lo < 0 THEN 1 ELSE 0)
  IN  FromHalves((hi + 65536) % 65536, (lo + 65536) % 65536)

\* unsigned a > b
Gt32(a, b) ==
  \/ Hi16(a) > Hi16(b)
  \/ Hi16(a) = Hi16(b) /\ Lo16(a) > Lo16(b)

\* the sequence s with byte i replaced by the byte i of t (one STS / LDS)
CopyByte(s, t, i) == [s EXCEPT ![i] = t[i]]

(* ------------------------------- pins ---------------------------------- *)
PanoPins == {"PANO_LED_R_PIN", "PANO_LED_G_PIN", "PANO_LED_B_PIN"}

LedPins == PanoPins \cup {"HOUSE_LED_PIN"}

\* digitalWrite(pin, LOW): the pin is a plain output driven low
PinLow == [mode |-> "digital", level |-> LOW]

\* analogWrite(pin, d): the pin carries PWM of duty d
PinPwm(d) == [mode |-> "pwm", level |-> d]

\* the house LED as setup() leaves it: waveform output A of timer D
PinTcd == [mode |-> "tcd", level |-> HOUSE_LED_CMPCLR]

digitalWriteLow(p, pin) == [p EXCEPT ![pin] = PinLow]

analogWrite(p, pin, d) == [p EXCEPT ![pin] = PinPwm(d)]

\* pin states right after setup()
PinsAfterSetup ==
  [pin \in LedPins |-> IF pin = "HOUSE_LED_PIN" THEN PinTcd ELSE PinLow]

\* every pano pin lit, the state a preceding composite write would leave
PinsAllLit ==
  [pin \in LedPins |-> IF pin = "HOUSE_LED_PIN" THEN PinTcd
                       ELSE PinPwm(PANO_LED_DUTY_CYCLE)]

(* --------------------------- pano_led_write ---------------------------- *)
\* a variant that lights red and green for yellow
pano_led_write_YellowRG(p, c, d) ==
  CASE c = PANO_COLOR_RED ->
         digitalWriteLow(digitalWriteLow(analogWrite(p, "PANO_LED_R_PIN", d),
           "PANO_LED_G_PIN"), "PANO_LED_B_PIN")
    [] c = PANO_COLOR_GREEN ->
         digitalWriteLow(digitalWriteLow(analogWrite(p, "PANO_LED_G_PIN", d),
           "PANO_LED_R_PIN"), "PANO_LED_B_PIN")
    [] c = PANO_COLOR_BLUE ->
         digitalWriteLow(digitalWriteLow(analogWrite(p, "PANO_LED_B_PIN", d),
           "PANO_LED_R_PIN"), "PANO_LED_G_PIN")
    [] c = PANO_COLOR_BROWN ->
         digitalWriteLow(analogWrite(analogWrite(p, "PANO_LED_R_PIN", d),
           "PANO_LED_G_PIN", d), "PANO_LED_B_PIN")
    [] c = PANO_COLOR_CYAN ->
         digitalWriteLow(analogWrite(analogWrite(p, "PANO_LED_G_PIN", d),
           "PANO_LED_B_PIN", d), "PANO_LED_R_PIN")
    [] c = PANO_COLOR_YELLOW ->
         digitalWriteLow(analogWrite(analogWrite(p, "PANO_LED_R_PIN", d),
           "PANO_LED_G_PIN", d), "PANO_LED_B_PIN")
    [] OTHER ->
         digitalWriteLow(digitalWriteLow(digitalWriteLow(p, "PANO_LED_R_PIN"),
           "PANO_LED_G_PIN"), "PANO_LED_B_PIN")

\* a variant whose default branch leaves the blue pin as it was
pano_led_write_DefaultSkipsBlue(p, c, d) ==
  CASE c = PANO_COLOR_RED ->
         digitalWriteLow(digitalWriteLow(analogWrite(p, "PANO_LED_R_PIN", d),
           "PANO_LED_G_PIN"), "PANO_LED_B_PIN")
    [] c = PANO_COLOR_GREEN ->
         digitalWriteLow(digitalWriteLow(analogWrite(p, "PANO_LED_G_PIN", d),
           "PANO_LED_R_PIN"), "PANO_LED_B_PIN")
    [] c = PANO_COLOR_BLUE ->
         digitalWriteLow(digitalWriteLow(analogWrite(p, "PANO_LED_B_PIN", d),
           "PANO_LED_R_PIN"), "PANO_LED_G_PIN")
    [] c = PANO_COLOR_BROWN ->
         digitalWriteLow(analogWrite(analogWrite(p, "PANO_LED_R_PIN", d),
           "PANO_LED_G_PIN", d), "PANO_LED_B_PIN")
    [] c = PANO_COLOR_CYAN ->
         digitalWriteLow(analogWrite(analogWrite(p, "PANO_LED_G_PIN", d),
           "PANO_LED_B_PIN", d), "PANO_LED_R_PIN")
    [] c = PANO_COLOR_YELLOW ->
         digitalWriteLow(analogWrite(analogWrite(p, "PANO_LED_R_PIN", d),
           "PANO_LED_B_PIN", d), "PANO_LED_G_PIN")
    [] OTHER ->
         digitalWriteLow(digitalWriteLow(p, "PANO_LED_R_PIN"), "PANO_LED_G_PIN")

\* the pin states after pano_led_write(c, d) started from pin states p
pano_led_write(p, c, d) ==
  CASE c = PANO_COLOR_RED ->
         digitalWriteLow(digitalWriteLow(analogWrite(p, "PANO_LED_R_PIN", d),
           "PANO_LED_G_PIN"), "PANO_LED_B_PIN")
    [] c = PANO_COLOR_GREEN ->
         digitalWriteLow(digitalWriteLow(analogWrite(p, "PANO_LED_G_PIN", d),
           "PANO_LED_R_PIN"), "PANO_LED_B_PIN")
    [] c = PANO_COLOR_BLUE ->
         digitalWriteLow(digitalWriteLow(analogWrite(p, "PANO_LED_B_PIN", d),
           "PANO_LED_R_PIN"), "PANO_LED_G_PIN")
    [] c = PANO_COLOR_BROWN ->
         digitalWriteLow(analogWrite(analogWrite(p, "PANO_LED_R_PIN", d),
           "PANO_LED_G_PIN", d), "PANO_LED_B_PIN")
    [] c = PANO_COLOR_CYAN ->
         digitalWriteLow(analogWrite(analogWrite(p, "PANO_LED_G_PIN", d),
           "PANO_LED_B_PIN", d), "PANO_LED_R_PIN")
    [] c = PANO_COLOR_YELLOW ->
         digitalWriteLow(analogWrite(analogWrite(p, "PANO_LED_R_PIN", d),
           "PANO_LED_B_PIN", d), "PANO_LED_G_PIN")
    [] OTHER ->
         digitalWriteLow(digitalWriteLow(digitalWriteLow(p, "PANO_LED_R_PIN"),
           "PANO_LED_G_PIN"), "PANO_LED_B_PIN")

(* ------------------ timer D, the CCP and the PIR pin ------------------- *)
\* the registers as the Arduino core hands them to setup(): timer D enabled
\* (line 132-133) and synchronised, configured for the core's own PWM, the
\* fault-control outputs off, no pin interrupt
HwPowerOn(ovr) ==
  [ENABLE |-> 1, CLK |-> "core", WGMODE |-> "core", INPUTMODE |-> "core",
   CMPASET |-> 1, CMPACLR |-> 509, CMPOVR |-> ovr, CMPAEN |-> 0,
   ENRDY |-> TRUE, CCP |-> FALSE, ISC |-> "INTDISABLE", PULLUPEN |-> 0]

\* the registers once setup() has returned
HwAfterSetup ==
  [ENABLE |-> 1, CLK |-> "SYSCLK_DIV4_DIV1", WGMODE |-> "ONERAMP",
   INPUTMODE |-> "NONE", CMPASET |-> 0, CMPACLR |-> HOUSE_LED_CMPCLR,
   CMPOVR |-> 0, CMPAEN |-> 1, ENRDY |-> TRUE, CCP |-> FALSE,
   ISC |-> "BOTHEDGES", PULLUPEN |-> 1]

\* the register operations of house_led_pwm_init and house_led_pwm_start up to
\* the end of the busy-wait, in program order
OrderBeforeEnable ==
  <<"CTRLA.ENABLE=0", "CTRLB", "INPUTCTRLA", "CMPASET", "CMPACLR", "CTRLA.CLK",
    "CTRLC.CMPOVR=0", "CPU_CCP", "FAULTCTRL", "ENRDY">>

\* all register operations of setup()
SetupOrder == OrderBeforeEnable \o <<"CTRLA.ENABLE=1", "PIN3CTRL">>

\* a pin before pinMode(): an input
PinInput == [mode |-> "input", level |-> LOW]

PinsPowerOn == [pin \in LedPins |-> PinInput]

(* ------------------------------ state ---------------------------------- *)
VARIABLES
  pc,                 \* where the main program is
  now,                \* the millisecond counter millis() returns
  start_ms,           \* volatile uint32_t start_ms, four bytes in memory
  pir,                \* level of the PIR_IN pin
  intflags,           \* PORTA.INTFLAGS bit of the PIR pin: an edge is pending
  m_tmp,              \* registers holding the value millis() returned
  s_tmp,              \* registers receiving the bytes of start_ms
  idx,                \* next byte of a 4-byte load or store of start_ms
  pins,               \* what each LED pin is driven with
  sleep_enabled,      \* the sleep-enable bit set by sleep_enable()
  current_pano_color, \* pano_color_t current_pano_color
  pulse_no,           \* which of loop()'s five pulse calls is next / running
  ppc,                \* where pano_led_pulse is
  color,              \* the color argument of the running call
  on_duration_ms,     \* arguments of pano_led_pulse
  off_duration_ms,
  steps,              \* locals of pano_led_pulse
  duty_increment,
  new_duty,
  duty_cycle,         \* duty_cycle argument of the last pano_led_write call
  up_writes,          \* pano_led_write calls made by the rising ramp
  down_writes,        \* pano_led_write calls made by the falling ramp
  act_ms,             \* counter value at the last sensor-edge interrupt
  written,            \* values that one write of start_ms stored in full
  loops,              \* completed loop() iterations, modulo the color count
  ticks,              \* timer ticks so far
  waits,              \* long waits so far
  hw,                 \* TCD0 registers, the CCP unlock and PORTA.PIN3CTRL
  setup_log,          \* register operations of setup() so far, in order
  iter_log,           \* what the running loop() iteration has done so far
  true_elapsed        \* time that really passed since start_ms was written

vars ==
  <<pc, now, start_ms, pir, intflags, m_tmp, s_tmp, idx, pins, sleep_enabled,
    current_pano_color, pulse_no, ppc, color, on_duration_ms, off_duration_ms,
    steps, duty_increment, new_duty, duty_cycle, up_writes, down_writes,
    act_ms, written, loops, ticks, waits, hw, setup_log, iter_log,
    true_elapsed>>

cpuVars == <<pc, m_tmp, s_tmp, idx, sleep_enabled, current_pano_color, pulse_no, loops>>

pulseVars ==
  <<ppc, color, on_duration_ms, off_duration_ms, steps, duty_increment,
    new_duty, duty_cycle, up_writes, down_writes>>

clockVars == <<now, ticks, waits>>

sensorVars == <<pir, intflags>>

stampVars == <<start_ms, act_ms, written>>

bootVars == <<hw, setup_log>>

Zero32 == ToBytes(0)

\* a long stretch of animation: just past the sleep timeout, one short of a
\* carry out of the low byte of the counter
LongWaitsMs == {SLEEP_TIMEOUT_MS + 95}

\* durations handed to pano_led_pulse on its own
DurationsMs == {5, 100, 200, 700, 710}

(* -------------------------- initial states ----------------------------- *)
\* the state setup() leaves: globals zero-initialised, red selected
Init ==
  /\ pc = "loop"
  /\ now = Zero32
  /\ start_ms = Zero32
  /\ pir \in {LOW, HIGH}
  /\ intflags = 0
  /\ m_tmp = Zero32
  /\ s_tmp = Zero32
  /\ idx = 1
  /\ pins = PinsAfterSetup
  /\ sleep_enabled = FALSE
  /\ current_pano_color = PANO_COLOR_RED
  /\ pulse_no = 1
  /\ ppc = "idle"
  /\ color = PANO_COLOR_RED
  /\ on_duration_ms = 0
  /\ off_duration_ms = 0
  /\ steps = 0
  /\ duty_increment = 0
  /\ new_duty = 0
  /\ duty_cycle = 0
  /\ up_writes = 0
  /\ down_writes = 0
  /\ act_ms = Zero32
  /\ written = {Zero32}
  /\ loops = 0
  /\ ticks = 0
  /\ waits = 0
  /\ hw = HwAfterSetup
  /\ setup_log = SetupOrder
  /\ iter_log = <<>>
  /\ true_elapsed = Zero32

(* --------------------------- pano_led_pulse ---------------------------- *)
CountUp(n) == IF n < MaxWrites THEN n + 1 ELSE n

\* lines 98-102: step count and increment of the rising ramp, new_duty = 0
PulseEnter ==
  /\ pc = "pulse" /\ ppc = "entry" /\ intflags = 0
  /\ steps' = on_duration_ms \div step_delay_ms
  /\ IF steps' = 0
     THEN ppc' = "undefined" /\ UNCHANGED <<duty_increment, new_duty>>
     ELSE /\ duty_increment' = PANO_LED_DUTY_CYCLE \div steps'
          /\ new_duty' = 0
          /\ ppc' = "up"
  /\ up_writes' = 0
  /\ down_writes' = 0
  /\ UNCHANGED <<color, on_duration_ms, off_duration_ms, duty_cycle, pins>>
  /\ UNCHANGED <<cpuVars, clockVars, sensorVars, stampVars>>
  /\ UNCHANGED <<bootVars, iter_log, true_elapsed>>

\* lines 102-105: one iteration of the rising loop (write, delay, increment)
PulseUpStep ==
  /\ pc = "pulse" /\ ppc = "up" /\ intflags = 0
  /\ new_duty <= PANO_LED_DUTY_CYCLE
  /\ duty_cycle' = new_duty % 256
  /\ pins' = pano_led_write(pins, color, duty_cycle')
  /\ new_duty' = new_duty + duty_increment
  /\ up_writes' = CountUp(up_writes)
  /\ UNCHANGED <<ppc, color, on_duration_ms, off_duration_ms, steps,
                 duty_increment, down_writes>>
  /\ UNCHANGED <<cpuVars, clockVars, sensorVars, stampVars>>
  /\ UNCHANGED <<bootVars, iter_log, true_elapsed>>

\* lines 102, 107-109: the rising loop ends, the falling ramp is set up
PulseUpExit ==
  /\ pc = "pulse" /\ ppc = "up" /\ intflags = 0
  /\ new_duty > PANO_LED_DUTY_CYCLE
  /\ steps' = off_duration_ms \div step_delay_ms
  /\ IF steps' = 0
     THEN ppc' = "undefined" /\ UNCHANGED <<duty_increment, new_duty>>
     ELSE /\ duty_increment' = PANO_LED_DUTY_CYCLE \div steps'
          /\ new_duty' = PANO_LED_DUTY_CYCLE
          /\ ppc' = "down"
  /\ UNCHANGED <<color, on_duration_ms, off_duration_ms, duty_cycle, pins,
                 up_writes, down_writes>>
  /\ UNCHANGED <<cpuVars, clockVars, sensorVars, stampVars>>
  /\ UNCHANGED <<bootVars, iter_log, true_elapsed>>

\* lines 109-112: one iteration of the falling loop
PulseDownStep ==
  /\ pc = "pulse" /\ ppc = "down" /\ intflags = 0
  /\ new_duty >= 0
  /\ duty_cycle' = new_duty % 256
  /\ pins' = pano_led_write(pins, color, duty_cycle')
  /\ new_duty' = new_duty - duty_increment
  /\ down_writes' = CountUp(down_writes)
  /\ UNCHANGED <<ppc, color, on_duration_ms, off_duration_ms, steps,
                 duty_increment, up_writes>>
  /\ UNCHANGED <<cpuVars, clockVars, sensorVars, stampVars>>
  /\ UNCHANGED <<bootVars, iter_log, true_elapsed>>

\* lines 109, 113: the falling loop ends and pano_led_pulse returns
PulseDownExit ==
  /\ pc = "pulse" /\ ppc = "down" /\ intflags = 0
  /\ new_duty < 0
  /\ ppc' = "done"
  /\ UNCHANGED <<color, on_duration_ms, off_duration_ms, steps, duty_increment,
                 new_duty, duty_cycle, pins, up_writes, down_writes>>
  /\ UNCHANGED <<cpuVars, clockVars, sensorVars, stampVars>>
  /\ UNCHANGED <<bootVars, iter_log, true_elapsed>>

\* lines 101, 108 with steps = 0: the division by zero is undefined; of what
\* may follow, the model keeps the return of the call
PulseUndefined ==
  /\ pc = "pulse" /\ ppc = "undefined"
  /\ ppc' = "done"
  /\ UNCHANGED <<color, on_duration_ms, off_duration_ms, steps, duty_increment,
                 new_duty, duty_cycle, pins, up_writes, down_writes>>
  /\ UNCHANGED <<cpuVars, clockVars, sensorVars, stampVars>>
  /\ UNCHANGED <<bootVars, iter_log, true_elapsed>>

\* pano_led_pulse called on its own with any color and durations
InitPulse ==
  /\ pc = "pulse"
  /\ ppc = "entry"
  /\ color \in PANO_COLOR_RED .. PANO_COLOR_YELLOW
  /\ on_duration_ms \in DurationsMs
  /\ off_duration_ms \in DurationsMs
  /\ now = Zero32 /\ start_ms = Zero32 /\ pir = LOW /\ intflags = 0
  /\ m_tmp = Zero32 /\ s_tmp = Zero32 /\ idx = 1
  /\ pins = PinsAfterSetup /\ sleep_enabled = FALSE
  /\ current_pano_color = color /\ pulse_no = 1
  /\ steps = 0 /\ duty_increment = 0 /\ new_duty = 0 /\ duty_cycle = 0
  /\ up_writes = 0 /\ down_writes = 0
  /\ act_ms = Zero32 /\ written = {Zero32} /\ loops = 0 /\ ticks = 0 /\ waits = 0
  /\ hw = HwAfterSetup /\ setup_log = SetupOrder /\ iter_log = <<>>
  /\ true_elapsed = Zero32

NextPulse ==
  \/ PulseEnter
  \/ PulseUpStep
  \/ PulseUpExit
  \/ PulseDownStep
  \/ PulseDownExit
  \/ PulseUndefined

SpecPulse == InitPulse /\ [][NextPulse]_vars

\* the processor keeps executing: every step of the call that can be taken is
\* taken in the end, and a call whose division was undefined is taken to return
SpecPulseFair == SpecPulse /\ WF_vars(NextPulse)

(* ---------------------- pano_led_write on its own ---------------------- *)
InitWrite ==
  /\ pc = "write"
  /\ ppc = "idle"
  /\ color \in 0 .. MaxColorValue
  /\ duty_cycle \in 0 .. 255
  /\ pins \in {PinsAfterSetup, PinsAllLit}
  /\ on_duration_ms = 0 /\ off_duration_ms = 0
  /\ now = Zero32 /\ start_ms = Zero32 /\ pir = LOW /\ intflags = 0
  /\ m_tmp = Zero32 /\ s_tmp = Zero32 /\ idx = 1
  /\ sleep_enabled = FALSE
  /\ current_pano_color = PANO_COLOR_RED /\ pulse_no = 1
  /\ steps = 0 /\ duty_increment = 0 /\ new_duty = 0
  /\ up_writes = 0 /\ down_writes = 0
  /\ act_ms = Zero32 /\ written = {Zero32} /\ loops = 0 /\ ticks = 0 /\ waits = 0
  /\ hw = HwAfterSetup /\ setup_log = SetupOrder /\ iter_log = <<>>
  /\ true_elapsed = Zero32

\* lines 55-92: one call pano_led_write(color, duty_cycle)
WriteCall ==
  /\ pc = "write"
  /\ pins' = pano_led_write(pins, color, duty_cycle)
  /\ pc' = "write_done"
  /\ UNCHANGED <<m_tmp, s_tmp, idx, sleep_enabled, current_pano_color, pulse_no, loops>>
  /\ UNCHANGED <<ppc, color, on_duration_ms, off_duration_ms, steps,
                 duty_increment, new_duty, duty_cycle, up_writes, down_writes>>
  /\ UNCHANGED <<clockVars, sensorVars, stampVars>>
  /\ UNCHANGED <<bootVars, iter_log, true_elapsed>>

NextWrite == WriteCall

SpecWrite == InitWrite /\ [][NextWrite]_vars

(* ----------------------- the sensor and the clock ---------------------- *)
pinsPulse == <<pins, ppc, color, on_duration_ms, off_duration_ms, steps,
               duty_increment, new_duty, duty_cycle, up_writes, down_writes>>

\* the PIR output changes level; with both-edge sensing this sets the pin's
\* interrupt flag (line 190)
PirEdge ==
  /\ pir' = HIGH + LOW - pir
  /\ intflags' = IF hw.ISC = "BOTHEDGES" THEN 1 ELSE intflags
  /\ UNCHANGED <<cpuVars, pinsPulse, clockVars, stampVars>>
  /\ UNCHANGED <<bootVars, iter_log, true_elapsed>>

\* a variant of the handler that also restarts the color cycle
ISR_ResetsColor ==
  /\ intflags = 1
  /\ ~hw.CCP
  /\ intflags' = 0
  /\ start_ms' = now
  /\ act_ms' = now
  /\ written' = written \cup {now}
  /\ current_pano_color' = PANO_COLOR_RED
  /\ pc' = IF pc = "asleep" THEN "wake_millis" ELSE pc
  /\ UNCHANGED <<m_tmp, s_tmp, idx, sleep_enabled, pulse_no, loops>>
  /\ UNCHANGED <<pir, pinsPulse, clockVars>>
  /\ UNCHANGED <<bootVars, iter_log, true_elapsed>>

\* lines 44-50: ISR(PORTA_PORT_vect). It runs to completion between two
\* instructions of the main program, and wakes the processor from standby.
ISR ==
  /\ intflags = 1
  /\ ~hw.CCP
  /\ intflags' = 0
  /\ start_ms' = now
  /\ act_ms' = now
  /\ written' = written \cup {now}
  /\ pc' = IF pc = "asleep" THEN "wake_millis" ELSE pc
  /\ UNCHANGED <<m_tmp, s_tmp, idx, sleep_enabled, current_pano_color, pulse_no, loops>>
  /\ UNCHANGED <<pir, pinsPulse, clockVars>>
  /\ UNCHANGED <<bootVars, iter_log, true_elapsed>>

\* the millisecond counter advances by one; it stands still in standby
Tick ==
  /\ pc # "asleep"
  /\ ~hw.CCP
  /\ ticks < MaxTicks
  /\ ticks' = ticks + 1
  /\ now' = Add32(now, ToBytes(1))
  /\ UNCHANGED <<waits, cpuVars, pinsPulse, sensorVars, stampVars>>
  /\ UNCHANGED <<bootVars, iter_log, true_elapsed>>

\* lines 104, 111: a long time goes by while the animation's delays run
LongWait ==
  /\ pc = "pulse"
  /\ waits < MaxWaits
  /\ waits' = waits + 1
  /\ \E d \in LongWaitsMs : now' = Add32(now, ToBytes(d))
  /\ UNCHANGED <<ticks, cpuVars, pinsPulse, sensorVars, stampVars>>
  /\ UNCHANGED <<bootVars, iter_log, true_elapsed>>

(* ------------------------------- loop() -------------------------------- *)
\* line 199, millis() evaluated before start_ms is loaded
LoopMillisFirst ==
  /\ pc = "loop" /\ intflags = 0
  /\ m_tmp' = now
  /\ idx' = 1
  /\ pc' = "load_b"
  /\ UNCHANGED <<s_tmp, sleep_enabled, current_pano_color, pulse_no, loops>>
  /\ UNCHANGED <<pinsPulse, clockVars, sensorVars, stampVars>>
  /\ UNCHANGED <<bootVars, iter_log, true_elapsed>>

\* line 199, the load of start_ms begun before millis() is called, and each
\* further byte of the load in either order
LoopLoadByte ==
  /\ pc \in {"loop", "load_a", "load_b"} /\ intflags = 0
  /\ s_tmp' = CopyByte(s_tmp, start_ms, IF pc = "loop" THEN 1 ELSE idx)
  /\ IF pc = "loop"
     THEN pc' = "load_a" /\ idx' = 2
     ELSE IF idx < 4
          THEN pc' = pc /\ idx' = idx + 1
          ELSE idx' = 1 /\ pc' = (IF pc = "load_a" THEN "millis_a" ELSE "cmp")
  /\ UNCHANGED <<m_tmp, sleep_enabled, current_pano_color, pulse_no, loops>>
  /\ UNCHANGED <<pinsPulse, clockVars, sensorVars, stampVars>>
  /\ UNCHANGED <<bootVars, iter_log, true_elapsed>>

\* line 199, millis() called after start_ms was loaded
LoopMillisSecond ==
  /\ pc = "millis_a" /\ intflags = 0
  /\ m_tmp' = now
  /\ pc' = "cmp"
  /\ UNCHANGED <<s_tmp, idx, sleep_enabled, current_pano_color, pulse_no, loops>>
  /\ UNCHANGED <<pinsPulse, clockVars, sensorVars, stampVars>>
  /\ UNCHANGED <<bootVars, iter_log, true_elapsed>>

\* the test of line 199 on the two values obtained
TimedOut(m, s) == Gt32(Sub32(m, s), ToBytes(SLEEP_TIMEOUT_MS))

\* line 199: the comparison and the branch
LoopCompare ==
  /\ pc = "cmp" /\ intflags = 0
  /\ pc' = IF TimedOut(m_tmp, s_tmp) THEN "pir" ELSE "call"
  /\ m_tmp' = Zero32
  /\ s_tmp' = Zero32
  /\ iter_log' = Append(iter_log, <<"check", 0, 0, 0>>)
  /\ UNCHANGED <<idx, sleep_enabled, current_pano_color, pulse_no, loops>>
  /\ UNCHANGED <<pinsPulse, clockVars, sensorVars, stampVars>>
  /\ UNCHANGED <<bootVars, true_elapsed>>

\* where line 200 goes for a pin level
PirBranch(level) == IF level = LOW THEN "sleep_prepare" ELSE "refresh_millis"

\* line 200: digitalRead(PIR_IN)
LoopReadPir ==
  /\ pc = "pir" /\ intflags = 0
  /\ pc' = PirBranch(pir)
  /\ UNCHANGED <<m_tmp, s_tmp, idx, sleep_enabled, current_pano_color, pulse_no, loops>>
  /\ UNCHANGED <<pinsPulse, clockVars, sensorVars, stampVars>>
  /\ UNCHANGED <<bootVars, iter_log, true_elapsed>>

\* lines 127 and 203: the call of millis() whose result is to be stored
LoopCallMillis ==
  /\ pc \in {"refresh_millis", "wake_millis"} /\ intflags = 0
  /\ m_tmp' = now
  /\ idx' = 1
  /\ pc' = IF pc = "refresh_millis" THEN "refresh_store" ELSE "wake_store"
  /\ UNCHANGED <<s_tmp, sleep_enabled, current_pano_color, pulse_no, loops>>
  /\ UNCHANGED <<pinsPulse, clockVars, sensorVars, stampVars>>
  /\ UNCHANGED <<bootVars, iter_log, true_elapsed>>

\* lines 127 and 203: one byte of the store to start_ms
LoopStoreByte ==
  /\ pc \in {"refresh_store", "wake_store"} /\ intflags = 0
  /\ start_ms' = CopyByte(start_ms, m_tmp, idx)
  /\ IF idx < 4
     THEN /\ idx' = idx + 1
          /\ UNCHANGED <<pc, m_tmp, written>>
     ELSE /\ idx' = 1
          /\ m_tmp' = Zero32
          /\ written' = written \cup {m_tmp}
          /\ pc' = IF pc = "refresh_store" THEN "call" ELSE "sleep_disable"
  /\ UNCHANGED <<s_tmp, sleep_enabled, current_pano_color, pulse_no, loops>>
  /\ UNCHANGED <<act_ms, pinsPulse, clockVars, sensorVars>>
  /\ UNCHANGED <<bootVars, iter_log, true_elapsed>>

\* lines 117-123: all four LED pins low, sleep enabled, standby selected
DeepSleepPrepare ==
  /\ pc = "sleep_prepare" /\ intflags = 0
  /\ pins' = [pin \in LedPins |-> PinLow]
  /\ sleep_enabled' = TRUE
  /\ pc' = "sleep_cpu"
  /\ UNCHANGED <<m_tmp, s_tmp, idx, current_pano_color, pulse_no, loops>>
  /\ UNCHANGED <<ppc, color, on_duration_ms, off_duration_ms, steps,
                 duty_increment, new_duty, duty_cycle, up_writes, down_writes>>
  /\ UNCHANGED <<clockVars, sensorVars, stampVars>>
  /\ UNCHANGED <<bootVars, iter_log, true_elapsed>>

\* line 124: sleep_cpu() halts the processor
DeepSleepCpu ==
  /\ pc = "sleep_cpu" /\ intflags = 0
  /\ pc' = "asleep"
  /\ UNCHANGED <<m_tmp, s_tmp, idx, sleep_enabled, current_pano_color, pulse_no, loops>>
  /\ UNCHANGED <<pinsPulse, clockVars, sensorVars, stampVars>>
  /\ UNCHANGED <<bootVars, iter_log, true_elapsed>>

\* line 128: sleep_disable(), then deep_sleep returns
DeepSleepDisable ==
  /\ pc = "sleep_disable" /\ intflags = 0
  /\ sleep_enabled' = FALSE
  /\ pc' = "call"
  /\ UNCHANGED <<m_tmp, s_tmp, idx, current_pano_color, pulse_no, loops>>
  /\ UNCHANGED <<pinsPulse, clockVars, sensorVars, stampVars>>
  /\ UNCHANGED <<bootVars, iter_log, true_elapsed>>

\* a variant with two slow pulses and three fast ones
PulseArgs_TwoSlow(n) == IF n <= 2 THEN <<200, 200>> ELSE <<100, 100>>

\* the durations of loop()'s n-th pulse call, lines 208-213
PulseArgs(n) == IF n <= 3 THEN <<200, 200>> ELSE <<100, 100>>

\* lines 208-213: the next call pano_led_pulse(current_pano_color, on, off)
LoopCallPulse ==
  /\ pc = "call" /\ intflags = 0
  /\ color' = current_pano_color
  /\ on_duration_ms' = PulseArgs(pulse_no)[1]
  /\ off_duration_ms' = PulseArgs(pulse_no)[2]
  /\ ppc' = "entry"
  /\ pc' = "pulse"
  /\ iter_log' = Append(iter_log,
       <<"pulse", PulseArgs(pulse_no)[1], PulseArgs(pulse_no)[2],
         current_pano_color>>)
  /\ UNCHANGED <<m_tmp, s_tmp, idx, sleep_enabled, current_pano_color, pulse_no, loops>>
  /\ UNCHANGED <<pins, steps, duty_increment, new_duty, duty_cycle, up_writes, down_writes>>
  /\ UNCHANGED <<clockVars, sensorVars, stampVars>>
  /\ UNCHANGED <<bootVars, true_elapsed>>

\* a pulse call returns to loop()
LoopPulseReturn ==
  /\ pc = "pulse" /\ ppc = "done" /\ intflags = 0
  /\ ppc' = "idle"
  /\ IF pulse_no < 5
     THEN pulse_no' = pulse_no + 1 /\ pc' = "call"
     ELSE pulse_no' = 1 /\ pc' = "advance"
  /\ UNCHANGED <<m_tmp, s_tmp, idx, sleep_enabled, current_pano_color, loops>>
  /\ UNCHANGED <<pins, color, on_duration_ms, off_duration_ms, steps,
                 duty_increment, new_duty, duty_cycle, up_writes, down_writes>>
  /\ UNCHANGED <<clockVars, sensorVars, stampVars>>
  /\ UNCHANGED <<bootVars, iter_log, true_elapsed>>

\* line 215
LoopAdvanceColor ==
  /\ pc = "advance" /\ intflags = 0
  /\ current_pano_color' = (current_pano_color + 1) % 256
  /\ pc' = "wrap"
  /\ iter_log' = Append(iter_log, <<"advance", 0, 0, current_pano_color>>)
  /\ UNCHANGED <<m_tmp, s_tmp, idx, sleep_enabled, pulse_no, loops>>
  /\ UNCHANGED <<pinsPulse, clockVars, sensorVars, stampVars>>
  /\ UNCHANGED <<bootVars, true_elapsed>>

\* a variant that wraps one value late
WrapColor_Late(c) == IF c > PANO_COLOR_COUNT THEN PANO_COLOR_RED ELSE c

\* lines 216-218
WrapColor(c) == IF c = PANO_COLOR_COUNT THEN PANO_COLOR_RED ELSE c

\* lines 216-218, and loop() returns
LoopWrapColor ==
  /\ pc = "wrap" /\ intflags = 0
  /\ current_pano_color' = WrapColor(current_pano_color)
  /\ loops' = (loops + 1) % PANO_COLOR_COUNT
  /\ pc' = "loop"
  /\ iter_log' = <<>>
  /\ UNCHANGED <<m_tmp, s_tmp, idx, sleep_enabled, pulse_no>>
  /\ UNCHANGED <<pinsPulse, clockVars, sensorVars, stampVars>>
  /\ UNCHANGED <<bootVars, true_elapsed>>

Next ==
  \/ PirEdge
  \/ ISR
  \/ Tick
  \/ LongWait
  \/ LoopMillisFirst
  \/ LoopLoadByte
  \/ LoopMillisSecond
  \/ LoopCompare
  \/ LoopReadPir
  \/ LoopCallMillis
  \/ LoopStoreByte
  \/ DeepSleepPrepare
  \/ DeepSleepCpu
  \/ DeepSleepDisable
  \/ LoopCallPulse
  \/ PulseEnter
  \/ PulseUpStep
  \/ PulseUpExit
  \/ PulseDownStep
  \/ PulseDownExit
  \/ LoopPulseReturn
  \/ LoopAdvanceColor
  \/ LoopWrapColor

Spec == Init /\ [][Next]_vars

(* ------------------- the elapsed-time test on its own ------------------ *)
\* values of start_ms: small ones, and ones close to the top of the range
\* (2^32 - 1, 2^32 - 65536, 2^32 - 900001, 2^31)
StartValues ==
  {ToBytes(0), ToBytes(1), ToBytes(900000), FromHalves(65535, 65535),
   FromHalves(65535, 0), FromHalves(65522, 17503), FromHalves(32768, 0)}

\* times gone by since start_ms was written, all below 2^32 ms: around the
\* timeout, a multiple of 65536, 2^31 and 2^32 - 1
ElapsedValues ==
  {ToBytes(0), ToBytes(1), ToBytes(899999), ToBytes(900000), ToBytes(900001),
   ToBytes(917504), FromHalves(32768, 0), FromHalves(65535, 65535)}

\* loop() is entered true_elapsed ms after start_ms was written; the counter
\* has wrapped when start_ms + true_elapsed passed 2^32
InitElapsed ==
  /\ pc = "loop"
  /\ start_ms \in StartValues
  /\ true_elapsed \in ElapsedValues
  /\ now = Add32(start_ms, true_elapsed)
  /\ act_ms = start_ms
  /\ written = {start_ms}
  /\ pir = LOW /\ intflags = 0
  /\ m_tmp = Zero32 /\ s_tmp = Zero32 /\ idx = 1
  /\ pins = PinsAfterSetup /\ sleep_enabled = FALSE
  /\ current_pano_color = PANO_COLOR_RED /\ pulse_no = 1
  /\ ppc = "idle" /\ color = PANO_COLOR_RED
  /\ on_duration_ms = 0 /\ off_duration_ms = 0
  /\ steps = 0 /\ duty_increment = 0 /\ new_duty = 0 /\ duty_cycle = 0
  /\ up_writes = 0 /\ down_writes = 0
  /\ loops = 0 /\ ticks = 0 /\ waits = 0
  /\ hw = HwAfterSetup /\ setup_log = SetupOrder /\ iter_log = <<>>

\* line 199 with no interrupt and no tick in between
NextElapsed ==
  \/ LoopMillisFirst
  \/ LoopLoadByte
  \/ LoopMillisSecond
  \/ LoopCompare

SpecElapsed == InitElapsed /\ [][NextElapsed]_vars

(* ------------------------------- setup() ------------------------------- *)
\* everything setup() leaves alone
restVars ==
  <<m_tmp, s_tmp, idx, sleep_enabled, pulse_no, loops, pulseVars, clockVars,
    sensorVars, stampVars, iter_log, true_elapsed>>

\* the state in which the Arduino core calls setup()
InitSetup ==
  /\ pc = "setup"
  /\ \E ovr \in {0, 1} : hw = HwPowerOn(ovr)
  /\ setup_log = <<>>
  /\ pins = PinsPowerOn
  /\ pir \in {LOW, HIGH}
  /\ now = Zero32 /\ start_ms = Zero32 /\ intflags = 0
  /\ m_tmp = Zero32 /\ s_tmp = Zero32 /\ idx = 1
  /\ sleep_enabled = FALSE
  /\ current_pano_color = 0 /\ pulse_no = 1
  /\ ppc = "idle" /\ color = 0 /\ on_duration_ms = 0 /\ off_duration_ms = 0
  /\ steps = 0 /\ duty_increment = 0 /\ new_duty = 0 /\ duty_cycle = 0
  /\ up_writes = 0 /\ down_writes = 0
  /\ act_ms = Zero32 /\ written = {Zero32} /\ loops = 0 /\ ticks = 0 /\ waits = 0
  /\ iter_log = <<>> /\ true_elapsed = Zero32

\* one register operation of the main program: from, to are places in setup(),
\* h the registers after it, op its name in the log
RegisterStep(from, to, h, op) ==
  /\ pc = from /\ intflags = 0
  /\ pc' = to
  /\ hw' = h
  /\ setup_log' = Append(setup_log, op)
  /\ UNCHANGED <<pins, current_pano_color, restVars>>

\* lines 178-181: the four pinMode(.., OUTPUT)
SetupPinMode ==
  /\ pc = "setup" /\ intflags = 0
  /\ pins' = [pin \in LedPins |-> PinLow]
  /\ pc' = "init_disable"
  /\ UNCHANGED <<bootVars, current_pano_color, restVars>>

\* a variant of line 134 that leaves the enable bit as it is
PwmInitDisable_Omitted ==
  /\ pc = "init_disable"
  /\ RegisterStep("init_disable", "init_ctrlb", hw, "CTRLA.ENABLE=0")

\* line 134: TCD0.CTRLA &= ~TCD_ENABLE_bm; a write of the enable bit clears
\* the enable-ready status until the timer domain has taken it over
PwmInitDisable ==
  /\ pc = "init_disable"
  /\ RegisterStep("init_disable", "init_ctrlb",
                  [hw EXCEPT !.ENABLE = 0, !.ENRDY = FALSE], "CTRLA.ENABLE=0")

\* line 137
PwmInitCtrlB ==
  /\ pc = "init_ctrlb"
  /\ RegisterStep("init_ctrlb", "init_inputctrl",
                  [hw EXCEPT !.WGMODE = "ONERAMP"], "CTRLB")

\* line 140
PwmInitInputCtrl ==
  /\ pc = "init_inputctrl"
  /\ RegisterStep("init_inputctrl", "init_cmpaset",
                  [hw EXCEPT !.INPUTMODE = "NONE"], "INPUTCTRLA")

\* line 143
PwmInitCmpSet ==
  /\ pc = "init_cmpaset"
  /\ RegisterStep("init_cmpaset", "init_cmpaclr", [hw EXCEPT !.CMPASET = 0],
                  "CMPASET")

\* line 144
PwmInitCmpClr ==
  /\ pc = "init_cmpaclr"
  /\ RegisterStep("init_cmpaclr", "init_clock",
                  [hw EXCEPT !.CMPACLR = HOUSE_LED_CMPCLR], "CMPACLR")

\* line 150: the whole of CTRLA is written, enable bit 0; the clock fields are
\* enable-protected (lines 132-133), they change only while the timer is off
PwmInitClock ==
  /\ pc = "init_clock"
  /\ RegisterStep("init_clock", "start_override",
                  [hw EXCEPT !.CLK = IF hw.ENABLE = 0 THEN "SYSCLK_DIV4_DIV1"
                                     ELSE hw.CLK,
                             !.ENABLE = 0, !.ENRDY = FALSE], "CTRLA.CLK")

\* line 155
PwmStartOverride ==
  /\ pc = "start_override"
  /\ RegisterStep("start_override", "start_unlock", [hw EXCEPT !.CMPOVR = 0],
                  "CTRLC.CMPOVR=0")

\* line 159: CPU_CCP = CCP_IOREG_gc opens the protected-write window
PwmStartUnlock ==
  /\ pc = "start_unlock"
  /\ RegisterStep("start_unlock", "start_faultctrl", [hw EXCEPT !.CCP = TRUE],
                  "CPU_CCP")

\* line 160: the write lands only inside the window, which it closes; output A
\* then drives the house LED pin. No interrupt is taken inside the window.
PwmStartFaultCtrl ==
  /\ pc = "start_faultctrl"
  /\ pc' = "start_wait"
  /\ hw' = [hw EXCEPT !.CMPAEN = IF hw.CCP THEN 1 ELSE hw.CMPAEN,
                      !.CCP = FALSE]
  /\ pins' = IF hw.CCP THEN [pins EXCEPT !["HOUSE_LED_PIN"] = PinTcd] ELSE pins
  /\ setup_log' = Append(setup_log, "FAULTCTRL")
  /\ UNCHANGED <<current_pano_color, restVars>>

\* a variant of lines 162-164 that does not look at the status bit
PwmStartWait_NoPoll ==
  /\ pc = "start_wait"
  /\ RegisterStep("start_wait", "start_enable", hw, "ENRDY")

\* lines 162-164: the busy-wait is left once TCD0.STATUS shows ENRDY
PwmStartWait ==
  /\ hw.ENRDY
  /\ RegisterStep("start_wait", "start_enable", hw, "ENRDY")

\* line 166: TCD0.CTRLA |= TCD_ENABLE_bm
PwmStartEnable ==
  /\ pc = "start_enable"
  /\ RegisterStep("start_enable", "setup_color",
                  [hw EXCEPT !.ENABLE = 1, !.ENRDY = FALSE], "CTRLA.ENABLE=1")

\* line 186
SetupColor ==
  /\ pc = "setup_color" /\ intflags = 0
  /\ current_pano_color' = PANO_COLOR_RED
  /\ pc' = "setup_pinctrl"
  /\ UNCHANGED <<bootVars, pins, restVars>>

\* line 190: both-edge sensing and the pull-up on the PIR pin
SetupPinCtrl ==
  /\ pc = "setup_pinctrl"
  /\ RegisterStep("setup_pinctrl", "setup_sei",
                  [hw EXCEPT !.ISC = "BOTHEDGES", !.PULLUPEN = 1], "PIN3CTRL")

\* line 192: sei(), setup() returns and the core calls loop()
SetupSei ==
  /\ pc = "setup_sei" /\ intflags = 0
  /\ pc' = "loop"
  /\ UNCHANGED <<bootVars, pins, current_pano_color, restVars>>

\* the timer domain has taken over the enable bit: TCD0.STATUS shows ENRDY
HwSync ==
  /\ ~hw.ENRDY
  /\ hw' = [hw EXCEPT !.ENRDY = TRUE]
  /\ UNCHANGED <<pc, setup_log, pins, current_pano_color, restVars>>

\* the main program's steps of setup()
SetupCpu ==
  \/ SetupPinMode
  \/ PwmInitDisable
  \/ PwmInitCtrlB
  \/ PwmInitInputCtrl
  \/ PwmInitCmpSet
  \/ PwmInitCmpClr
  \/ PwmInitClock
  \/ PwmStartOverride
  \/ PwmStartUnlock
  \/ PwmStartFaultCtrl
  \/ PwmStartWait
  \/ PwmStartEnable
  \/ SetupColor
  \/ SetupPinCtrl
  \/ SetupSei

NextSetup ==
  \/ SetupCpu
  \/ HwSync
  \/ PirEdge
  \/ ISR
  \/ Tick

SpecSetup == InitSetup /\ [][NextSetup]_vars

\* the processor keeps executing: a pending interrupt is served, and the main
\* program gets its next instruction between two interrupts
SpecSetupFair == SpecSetup /\ SF_vars(SetupCpu) /\ WF_vars(ISR)

(* ------------------------------ claims --------------------------------- *)
AllLedsLow(p) == \A pin \in LedPins : p[pin] = PinLow

Storing == pc \in {"refresh_store", "wake_store"}

MidStore == Storing /\ idx > 1

\* start_ms holds a current time once the main program has stored m: the
\* value m itself, or the later one an interrupt handler stored in full
\* while the store was under way
HoldsCurrentTime(s, m, a) == s = m \/ (s = a /\ Gt32(a, m))

\* C1: when the check finds the timeout exceeded and reads the PIR pin LOW,
\* the device drives all four LED pins low and enters standby, leaves standby
\* only through a sensor-edge interrupt, and the store that follows the wake
\* leaves start_ms holding the current time (the one millis() has just
\* returned, or a later one from the interrupt handler) before the next pulse
\* starts.
C1_SleepAndRefresh ==
  [][ /\ (pc = "pir" /\ pc' # "pir" /\ pir = LOW) => pc' = "sleep_prepare"
      /\ (pc' = "asleep") => (AllLedsLow(pins') /\ sleep_enabled')
      /\ (pc = "asleep" /\ pc' # "asleep") => (intflags = 1 /\ pc' = "wake_millis")
      /\ (pc = "wake_store" /\ pc' # "wake_store") =>
            (HoldsCurrentTime(start_ms', m_tmp, act_ms) /\ pc' = "sleep_disable")
      /\ (pc' = "pulse" /\ pc # "pulse") => pc = "call"
    ]_vars

\* C2: when the check finds the timeout exceeded and reads the PIR pin HIGH,
\* the iteration goes on to the refresh, not to deep_sleep, leaves the LED
\* pins alone, and when the refresh is done start_ms holds the current time
\* (the one millis() has just returned, or a later one from the interrupt
\* handler).
C2_RefreshWhenHeldHigh ==
  [][ /\ (pc = "pir" /\ pc' # "pir" /\ pir = HIGH) =>
            (pc' = "refresh_millis" /\ pins' = pins)
      /\ (pc = "refresh_millis" /\ pc' # pc) => (pc' = "refresh_store" /\ pins' = pins)
      /\ (pc = "refresh_store" /\ pc' # "refresh_store") =>
            /\ HoldsCurrentTime(start_ms', m_tmp, act_ms)
            /\ pc' = "call" /\ pins' = pins /\ ~sleep_enabled'
    ]_vars

\* C3: whenever the comparison of line 199 is decided while at most 15
\* minutes have passed since the last sensor-edge interrupt, the controller
\* goes straight on to the pulses and changes neither start_ms, nor an LED
\* pin, nor the sleep state.
C3_NoChangeWithinTimeout ==
  [][ (pc = "cmp" /\ pc' # "cmp" /\ ~TimedOut(now, act_ms)) =>
        (pc' = "call" /\ UNCHANGED <<start_ms, pins, sleep_enabled>>)
    ]_vars

\* C4: when pano_led_pulse returns, its rising ramp has made on_ms / 10
\* writes, its falling ramp off_ms / 10 writes, and the last duty written
\* is 0.
C4_PulseStepCounts ==
  (pc = "pulse" /\ ppc = "done") =>
     /\ up_writes = on_duration_ms \div step_delay_ms
     /\ down_writes = off_duration_ms \div step_delay_ms
     /\ duty_cycle = 0

\* C5: every call of pano_led_pulse eventually returns, whatever its on and
\* off durations (durations above 700 ms and below 10 ms included).
C5_PulseTerminates == <>(ppc = "done")

\* C6: no write to start_ms stores a value smaller than the one it replaces:
\* neither the value the main program is about to store, nor the counter
\* value a pending interrupt handler will store.
C6_StartMsMonotonic ==
  /\ (Storing /\ idx = 1) => ~Gt32(start_ms, m_tmp)
  /\ (intflags = 1 /\ ~MidStore) => ~Gt32(start_ms, now)

\* C7: the value the main program has loaded from start_ms for the comparison
\* is one that a single write stored in full, and outside a store in progress
\* start_ms itself holds such a value.
C7_NoTornAccess ==
  /\ pc = "cmp" => s_tmp \in written
  /\ ~MidStore => start_ms \in written

\* the pano channels each color lights
ColorChannels(c) ==
  CASE c = PANO_COLOR_RED -> {"PANO_LED_R_PIN"}
    [] c = PANO_COLOR_GREEN -> {"PANO_LED_G_PIN"}
    [] c = PANO_COLOR_BLUE -> {"PANO_LED_B_PIN"}
    [] c = PANO_COLOR_BROWN -> {"PANO_LED_R_PIN", "PANO_LED_G_PIN"}
    [] c = PANO_COLOR_CYAN -> {"PANO_LED_G_PIN", "PANO_LED_B_PIN"}
    [] c = PANO_COLOR_YELLOW -> {"PANO_LED_R_PIN", "PANO_LED_B_PIN"}

SixColors == PANO_COLOR_RED .. PANO_COLOR_YELLOW

\* C8: after pano_led_write(color, d) with one of the six colors and any d in
\* 0..255, the channels of that color carry duty d and every other pano
\* channel is LOW, whatever the pins carried before.
C8_WriteDrivesColorChannels ==
  (pc = "write_done" /\ color \in SixColors) =>
     \A pin \in PanoPins :
        pins[pin] = IF pin \in ColorChannels(color) THEN PinPwm(duty_cycle) ELSE PinLow

C8_Witness ==
  /\ pc = "write_done"
  /\ color = PANO_COLOR_CYAN
  /\ duty_cycle = 255
  /\ pins["PANO_LED_G_PIN"] = PinPwm(255)
  /\ pins["PANO_LED_B_PIN"] = PinPwm(255)
  /\ pins["PANO_LED_R_PIN"] = PinLow

\* C9: after pano_led_write with a color value outside the six colors and any
\* duty, all three pano channels are LOW and none carries the duty.
C9_UnknownColorAllLow ==
  (pc = "write_done" /\ color \notin SixColors) =>
     \A pin \in PanoPins : pins[pin] = PinLow

C9_Witness ==
  /\ pc = "write_done"
  /\ color = PANO_COLOR_COUNT
  /\ duty_cycle = PANO_LED_DUTY_CYCLE
  /\ \A pin \in PanoPins : pins[pin] = PinLow

\* the fixed order of the colors
ColorOrder ==
  <<PANO_COLOR_RED, PANO_COLOR_GREEN, PANO_COLOR_BLUE,
    PANO_COLOR_BROWN, PANO_COLOR_CYAN, PANO_COLOR_YELLOW>>

\* C10: after n completed loop() iterations current_pano_color is the color at
\* position n modulo 6 of red, green, blue, brown, cyan, yellow (red at the
\* start, the same color again after six iterations), and every pulse runs
\* with that color, one of the six.
C10_ColorCycle ==
  /\ pc # "wrap" => current_pano_color = ColorOrder[loops + 1]
  /\ pc = "wrap" => current_pano_color = ColorOrder[loops + 1] + 1
  /\ pc = "pulse" => (color = ColorOrder[loops + 1] /\ color \in SixColors)

C10_Witness ==
  /\ pc = "pulse"
  /\ ppc = "up"
  /\ loops = 0
  /\ current_pano_color = PANO_COLOR_RED
  /\ pins["PANO_LED_B_PIN"] = PinPwm(0)
  /\ pins["PANO_LED_G_PIN"] = PinLow

(* C11: the step that sets the timer's enable bit is taken only when the      *)
(* register operations so far are, in this order, those of house_led_pwm_init *)
(* (disable first, waveform, input mode, compare values, clock), the override *)
(* clear, the unlock, the fault-control write and the observed enable-ready;  *)
(* the registers then hold the configured values, output A is enabled and     *)
(* enable-ready reads set. While the unlock window is open no interrupt and   *)
(* no timer tick gets in: the main program's next step is the fault-control   *)
(* write.                                                                     *)
C11_EnableOnlyAfterOrder ==
  [][/\ (hw.ENABLE = 0 /\ hw'.ENABLE = 1) =>
          /\ setup_log = OrderBeforeEnable
          /\ hw.WGMODE = "ONERAMP" /\ hw.INPUTMODE = "NONE"
          /\ hw.CMPASET = 0 /\ hw.CMPACLR = HOUSE_LED_CMPCLR
          /\ hw.CLK = "SYSCLK_DIV4_DIV1"
          /\ hw.CMPOVR = 0
          /\ hw.CMPAEN = 1
          /\ hw.ENRDY
     /\ hw.CCP =>
          /\ now' = now /\ start_ms' = start_ms
          /\ pc' # pc => setup_log' = Append(setup_log, "FAULTCTRL")]_vars

\* setup() has returned with the timer enabled on the house LED pin
C11_Witness ==
  /\ pc = "loop"
  /\ hw.ENABLE = 1 /\ hw.CMPAEN = 1
  /\ setup_log = SetupOrder
  /\ pins["HOUSE_LED_PIN"] = PinTcd

(* C12: whenever the processor is halted in standby, more than                *)
(* SLEEP_TIMEOUT_MS have passed since the last sensor-edge interrupt (or      *)
(* since start-up when there was none), whatever the interleaving of the      *)
(* interrupt with the main program.                                           *)
C12_SleepOnlyAfterTimeout ==
  pc = "asleep" => TimedOut(now, act_ms)

(* C13: the processor is never halted in standby, with no interrupt pending,  *)
(* while the PIR pin is HIGH.                                                 *)
C13_NoStandbyWhilePirHigh ==
  (pc = "asleep" /\ intflags = 0) => pir = LOW

\* what one loop() iteration on color c does, in order
ExpectedIter(c) ==
  <<<<"check", 0, 0, 0>>,
    <<"pulse", 200, 200, c>>, <<"pulse", 200, 200, c>>, <<"pulse", 200, 200, c>>,
    <<"pulse", 100, 100, c>>, <<"pulse", 100, 100, c>>,
    <<"advance", 0, 0, c>>>>

IsPrefix(s, t) == Len(s) <= Len(t) /\ s = SubSeq(t, 1, Len(s))

\* the places of the power controller: the test of line 199 and what follows it
PowerPcs ==
  {"load_a", "load_b", "millis_a", "cmp", "pir", "refresh_millis",
   "refresh_store", "sleep_prepare", "sleep_cpu", "asleep", "wake_millis",
   "wake_store", "sleep_disable"}

(* C14: what a loop() iteration has done so far is always a beginning of: one *)
(* power check, three pulses (200, 200), two pulses (100, 100), one color     *)
(* advance, all on one color (that of its first pulse), which is the current  *)
(* one until the advance; the iteration ends only with                        *)
(* the whole list done; and the program is inside the power controller (or in *)
(* standby) only before the first pulse.                                      *)
C14_IterationOrder ==
  LET c == IF Len(iter_log) >= 2 THEN iter_log[2][4] ELSE current_pano_color
  IN
    /\ c \in SixColors
    /\ IsPrefix(iter_log, ExpectedIter(c))
    /\ pc \in {"call", "pulse", "advance"} => c = current_pano_color
    /\ pc = "wrap" => iter_log = ExpectedIter(c)
    /\ pc = "loop" => iter_log = <<>>
    /\ pc \in PowerPcs => Len(iter_log) <= 1
    /\ pc = "advance" => Len(iter_log) = 6

\* the second iteration, on green, has done all its steps
C14_Witness ==
  /\ pc = "wrap"
  /\ loops = 1
  /\ iter_log = ExpectedIter(PANO_COLOR_GREEN)

\* the places of setup() after house_led_pwm_start has returned
ReturnedFromStart == {"setup_color", "setup_pinctrl", "setup_sei", "loop"}

(* C15: the busy-wait of house_led_pwm_start is left only when enable-ready   *)
(* reads set. If enable-ready is seen set during the wait at some time, start *)
(* returns with the timer enabled and setup() goes on to loop(). If it never  *)
(* reads set during the wait, start never returns, the enable bit stays       *)
(* clear, the sensor interrupt is never configured and loop() never runs.     *)
C15_StartReturnsIffReady ==
  /\ [][(pc = "start_wait" /\ pc' # "start_wait") => hw.ENRDY]_vars
  /\ [](pc \in ReturnedFromStart => hw.ENABLE = 1)
  /\ <>(pc = "start_wait" /\ hw.ENRDY) => <>(pc = "loop" /\ hw.ENABLE = 1)
  /\ [](pc = "start_wait" => ~hw.ENRDY) =>
       [](/\ pc \notin ReturnedFromStart
          /\ pc = "start_wait" => hw.ENABLE = 0
          /\ hw.ISC = "INTDISABLE"
          /\ iter_log = <<>>)

\* the busy-wait was left and setup() went on to configure the interrupt
C15_Witness ==
  /\ pc = "setup_sei"
  /\ hw.ENABLE = 1
  /\ hw.ISC = "BOTHEDGES"

(* C16: a run of the interrupt handler (the step that clears the pending      *)
(* flag) leaves start_ms equal to the counter and changes neither             *)
(* current_pano_color, nor any LED pin, nor the running pulse's color, step   *)
(* data and duty value, nor the timer and pin-interrupt registers; the main   *)
(* program is where it was, unless it was halted in standby. Every change of *)
(* the pin's level leaves the flag pending, and the main program takes no     *)
(* step while it is.                                                          *)
C16_IsrFrame ==
  [][/\ (intflags = 1 /\ intflags' = 0) =>
          /\ start_ms' = now
          /\ UNCHANGED <<current_pano_color, pins, pulseVars, pulse_no, hw>>
          /\ UNCHANGED <<now, pir, sleep_enabled, m_tmp, s_tmp, idx>>
          /\ pc' # pc => (pc = "asleep" /\ pc' = "wake_millis")
     /\ pir' # pir => intflags' = 1
     /\ (intflags = 1 /\ intflags' = 1) => pc' = pc]_vars

\* the handler has run in the middle of a pulse: the ramp is part-way up on a
\* color other than red and start_ms holds a time stamp it wrote
C16_Witness ==
  /\ pc = "pulse" /\ ppc = "up"
  /\ new_duty > 0
  /\ current_pano_color # PANO_COLOR_RED
  /\ intflags = 0
  /\ act_ms # Zero32
  /\ start_ms = act_ms

(* C17: when loop() evaluates line 199 undisturbed, true_elapsed ms after     *)
(* start_ms was written (true_elapsed below 2^32, the counter possibly        *)
(* wrapped past 0 in between), it takes the timeout branch exactly when       *)
(* true_elapsed is above SLEEP_TIMEOUT_MS.                                    *)
C17_ElapsedAcrossWrap ==
  [][(pc = "cmp" /\ pc' # "cmp") =>
       (pc' = "pir" <=> Gt32(true_elapsed, ToBytes(SLEEP_TIMEOUT_MS)))]_vars

\* the counter has wrapped since start_ms was written (it reads less than
\* start_ms) and the test found the timeout
C17_Witness ==
  /\ pc = "pir"
  /\ Gt32(start_ms, now)
  /\ Gt32(true_elapsed, ToBytes(SLEEP_TIMEOUT_MS))
  /\ iter_log = <<<<"check", 0, 0, 0>>>>

====
